---- MODULE Spec2Model ----
(***************************************************************************)
(* Tile decompressor of the Alien Soldier disassembly tooling.             *)
(*                                                                         *)
(* Two copies of the decoder exist: scripts/split.py (unpack_tiles, with   *)
(* its batch driver main) and unpacker.py (unpack, with its __main__       *)
(* loop).  The model carries both; the variable variant says which copy    *)
(* is running.  Indices (idx, idx_res, idx_window) are the 0-based Python  *)
(* indices of the source; At and PyGet translate them to TLA+ sequences.   *)
(***************************************************************************)
EXTENDS Integers, Sequences, FiniteSets, TLC

VARIABLES
    variant,        \* "split" (scripts/split.py) or "unpacker" (unpacker.py)
    data,           \* the ROM buffer, array('B')
    tiles_addrs,    \* the address list of the batch loop
    pos,            \* 1-based position of the for loop in tiles_addrs
    pc,             \* "main" | "loop" | "exit"
    arr,            \* data[addr:]
    size,           \* declared size read from the header
    idx,            \* input cursor
    idx_res,        \* output counter
    res,            \* output buffer
    reads,          \* history: indices of arr read for the current block
    last,           \* history: the last dispatch iteration (pre-state, opcode)
    error,          \* history: exception raised by the current block
    outcome,        \* history: "ok" / "fail" per attempted address
    success_count,
    fail_count,
    files,          \* the files on disk: set of [name, content]
    exit_code,
    results,        \* history: [addr, ok, err, out, msg] per attempted address
    iters,          \* history: dispatch iterations begun for the current block
    workers         \* frames of concurrent unpack_tiles calls, one per worker

vars == <<variant, data, tiles_addrs, pos, pc, arr, size, idx, idx_res, res,
          reads, last, error, outcome, success_count, fail_count, files,
          exit_code, results, iters, workers>>

-----------------------------------------------------------------------------
(* Bounds of the explored inputs *)

MaxBody == 4
MaxAddr == 1
MaxList == 2
MaxBatchBody == 3
MaxBatchAddr == 2
MaxParBody == 2
NWorkers == 2

-----------------------------------------------------------------------------
(* Python sequence semantics *)

At(a, i) == a[i + 1]

\* a[i] on array('B') / list: IndexError unless -len <= i < len
PyIndexOK(a, i) == i >= 0 - Len(a) /\ i < Len(a)

\* a[i] with Python's negative indices counted from the end
PyGet(a, i) == IF i >= 0 THEN a[i + 1] ELSE a[Len(a) + i + 1]

\* data[addr:] for addr >= 0
Slice(a, addr) ==
    IF addr >= Len(a) THEN << >> ELSE [k \in 1..(Len(a) - addr) |-> a[addr + k]]

-----------------------------------------------------------------------------
(* Opcode fields *)

\* byte_read >= 0x80
IsBackref(b) == b >= 128

\* (byte_read & (1 << 5)) != 0
Bit5(b) == (b \div 32) % 2 = 1

\* (byte_read & (1 << 6)) != 0
Bit6(b) == (b \div 64) % 2 = 1

\* cnt = ((byte_read >> 2) & 0x1F) + 1
CntBackref(b) == ((b \div 4) % 32) + 1

\* cnt = (byte_read & 0x1F) + 1, alternating pairs
CntAlt(b) == (b % 32) + 1

CntSingle_m(b) == b % 32

\* cnt = (byte_read & 0x1F) + 1, single byte run
CntSingle(b) == (b % 32) + 1

CntPair_m(b) == b % 32

\* cnt = (byte_read & 0x1F) + 1, two-byte pattern
CntPair(b) == (b % 32) + 1

CntLiteral_m(b) == (b % 32) + 1

\* cnt = (byte_read & 0x1F), literal data
CntLiteral(b) == b % 32

DistanceSplit_m(b, s) == ((((b + s) * 256) % 65536) % 1024) + 1

\* split.py: tmp = (tmp << 8) & 0xFFFF; tmp += s; tmp = (tmp & 0x3FF) + 1
DistanceSplit(b, s) == ((((b * 256) % 65536) + s) % 1024) + 1

DistanceUnpacker_m(b, s) == ((((b * 256) % 65536) + s) % 1024) + 1

\* unpacker.py: tmp = byte_read + s; tmp = (tmp << 8) & 0xFFFF; tmp = (tmp & 0x3FF) + 1
DistanceUnpacker(b, s) == ((((b + s) * 256) % 65536) % 1024) + 1

Distance(v, b, s) == IF v = "split" THEN DistanceSplit(b, s) ELSE DistanceUnpacker(b, s)

-----------------------------------------------------------------------------
(* Decoder frame: the locals of unpack_tiles / unpack while an opcode runs. *)
(* err is "none", or the exception that ended the iteration:               *)
(* "arr" IndexError on arr[...], "res" IndexError on res[...].             *)
(* val is the byte last read from arr (s, z, s1, s2); cnt and tmp are the  *)
(* locals of those names; win is idx_window as first computed.             *)

Frame(i, r, ir, rd) ==
    [idx |-> i, res |-> r, idx_res |-> ir, reads |-> rd, err |-> "none",
     val |-> 0, cnt |-> 0, tmp |-> 0, win |-> 0]

ReadArr_m(a, st, i) ==
    IF PyIndexOK(a, i)
    THEN [st EXCEPT !.idx = i, !.reads = @ \cup {i}, !.val = PyGet(a, i)]
    ELSE [st EXCEPT !.idx = i, !.reads = @ \cup {i}, !.val = 0]

\* s = arr[i]: the bounds check of the subscript and the read
ReadArr(a, st, i) ==
    IF PyIndexOK(a, i)
    THEN [st EXCEPT !.idx = i, !.reads = @ \cup {i}, !.val = PyGet(a, i)]
    ELSE [st EXCEPT !.idx = i, !.err = "arr"]

RECURSIVE CopyWindow_m(_, _, _)
CopyWindow_m(st, w, n) ==
    IF n = 0 THEN st
    ELSE IF ~PyIndexOK(st.res, w) THEN [st EXCEPT !.err = "res"]
    ELSE CopyWindow_m([st EXCEPT !.res = Append(@, PyGet(st.res, w)),
                                 !.idx_res = @ + 1], w, n - 1)

\* for _ in range(n): s = res[idx_window]; idx_window += 1; res.append(s); idx_res += 1
RECURSIVE CopyWindow(_, _, _)
CopyWindow(st, w, n) ==
    IF n = 0 THEN st
    ELSE IF ~PyIndexOK(st.res, w) THEN [st EXCEPT !.err = "res"]
    ELSE CopyWindow([st EXCEPT !.res = Append(@, PyGet(st.res, w)),
                               !.idx_res = @ + 1], w + 1, n - 1)

\* the byte_read >= 0x80 branch
DoBackref(v, a, st, b) ==
    LET s0 == [st EXCEPT !.cnt = CntBackref(b)]
        s1 == ReadArr(a, s0, s0.idx + 1)
    IN  IF s1.err # "none" THEN s1
        ELSE LET tmp == Distance(v, b, s1.val)
                 s2  == [s1 EXCEPT !.tmp = tmp, !.win = s1.idx_res - tmp]
             IN  CopyWindow(s2, s2.win, s2.cnt + 1)

RECURSIVE AltLoop_m(_, _, _, _)
AltLoop_m(a, st, z, n) ==
    IF n = 0 THEN st
    ELSE LET s1 == ReadArr(a, st, st.idx + 1)
         IN  IF s1.err # "none" THEN s1
             ELSE AltLoop_m(a, [s1 EXCEPT !.res = Append(Append(@, s1.val), z),
                                          !.idx_res = @ + 2], z, n - 1)

\* for _ in range(n): res.append(z); idx += 1; s = arr[idx]; res.append(s); idx_res += 2
RECURSIVE AltLoop(_, _, _, _)
AltLoop(a, st, z, n) ==
    IF n = 0 THEN st
    ELSE LET s0 == [st EXCEPT !.res = Append(@, z)]
             s1 == ReadArr(a, s0, s0.idx + 1)
         IN  IF s1.err # "none" THEN s1
             ELSE AltLoop(a, [s1 EXCEPT !.res = Append(@, s1.val),
                                        !.idx_res = @ + 2], z, n - 1)

\* the alternating pairs branch
DoAlt(a, st, b) ==
    LET s0 == [st EXCEPT !.cnt = CntAlt(b)]
        s1 == ReadArr(a, s0, s0.idx + 1)
    IN  IF s1.err # "none" THEN s1
        ELSE AltLoop(a, s1, s1.val, s1.cnt + 1)

\* for _ in range(n): res.append(s); idx_res += 1
RECURSIVE SingleLoop(_, _, _)
SingleLoop(st, s, n) ==
    IF n = 0 THEN st
    ELSE SingleLoop([st EXCEPT !.res = Append(@, s), !.idx_res = @ + 1], s, n - 1)

DoSingle_m(a, st, b) ==
    LET s0 == [st EXCEPT !.cnt = CntSingle(b)]
        s1 == ReadArr(a, s0, s0.idx + 1)
    IN  IF s1.err # "none" THEN s1
        ELSE SingleLoop(s1, s1.val, s1.cnt)

\* the single byte run branch
DoSingle(a, st, b) ==
    LET s0 == [st EXCEPT !.cnt = CntSingle(b)]
        s1 == ReadArr(a, s0, s0.idx + 1)
    IN  IF s1.err # "none" THEN s1
        ELSE SingleLoop(s1, s1.val, s1.cnt + 1)

RECURSIVE PairLoop_m(_, _, _, _)
PairLoop_m(st, x, y, n) ==
    IF n = 0 THEN st
    ELSE PairLoop_m([st EXCEPT !.res = Append(Append(@, x), y), !.idx_res = @ + 1],
                    x, y, n - 1)

\* for _ in range(n): res.append(s1); res.append(s2); idx_res += 2
RECURSIVE PairLoop(_, _, _, _)
PairLoop(st, x, y, n) ==
    IF n = 0 THEN st
    ELSE PairLoop([st EXCEPT !.res = Append(Append(@, x), y), !.idx_res = @ + 2],
                  x, y, n - 1)

DoPair_m(a, st, b) ==
    LET i  == st.idx
        s0 == [st EXCEPT !.cnt = CntPair(b)]
        r1 == ReadArr(a, s0, i + 1)
        r2 == ReadArr(a, r1, i + 2)
    IN  IF r1.err # "none" THEN [r1 EXCEPT !.idx = i]
        ELSE IF r2.err # "none" THEN [r2 EXCEPT !.idx = i]
        ELSE PairLoop(r2, r1.val, r1.val, r2.cnt + 1)

\* the two-byte pattern branch: s1 = arr[idx + 1]; s2 = arr[idx + 2]; idx += 2
DoPair(a, st, b) ==
    LET i  == st.idx
        s0 == [st EXCEPT !.cnt = CntPair(b)]
        r1 == ReadArr(a, s0, i + 1)
        r2 == ReadArr(a, r1, i + 2)
    IN  IF r1.err # "none" THEN [r1 EXCEPT !.idx = i]
        ELSE IF r2.err # "none" THEN [r2 EXCEPT !.idx = i]
        ELSE PairLoop(r2, r1.val, r2.val, r2.cnt + 1)

RECURSIVE LiteralLoop_m(_, _, _)
LiteralLoop_m(a, st, n) ==
    IF n = 0 THEN st
    ELSE LET s1 == ReadArr(a, st, st.idx + 1)
         IN  IF s1.err # "none" THEN s1
             ELSE LiteralLoop_m(a, [s1 EXCEPT !.res = <<s1.val>>,
                                              !.idx_res = @ + 1], n - 1)

\* for _ in range(n): idx += 1; s = arr[idx]; res.append(s); idx_res += 1
RECURSIVE LiteralLoop(_, _, _)
LiteralLoop(a, st, n) ==
    IF n = 0 THEN st
    ELSE LET s1 == ReadArr(a, st, st.idx + 1)
         IN  IF s1.err # "none" THEN s1
             ELSE LiteralLoop(a, [s1 EXCEPT !.res = Append(@, s1.val),
                                            !.idx_res = @ + 1], n - 1)

\* the literal data branch
DoLiteral(a, st, b) ==
    LET s0 == [st EXCEPT !.cnt = CntLiteral(b)]
    IN  LiteralLoop(a, s0, s0.cnt + 1)

StepOnce_m(v, a, st) ==
    IF ~PyIndexOK(a, st.idx) THEN [st EXCEPT !.err = "arr"]
    ELSE LET b == At(a, st.idx)
             f == [st EXCEPT !.reads = @ \cup {st.idx}]
             r == IF IsBackref(b) THEN DoBackref(v, a, f, b)
                  ELSE IF Bit5(b)
                       THEN (IF Bit6(b) THEN DoAlt(a, f, b)
                             ELSE IF v = "unpacker" THEN DoSingle_m(a, f, b)
                             ELSE DoSingle(a, f, b))
                       ELSE (IF Bit6(b) THEN DoPair(a, f, b) ELSE DoLiteral(a, f, b))
         IN  IF r.err # "none" THEN r ELSE [r EXCEPT !.idx = @ + 1]

\* one iteration of the while loop from the frame st, whose cursor passed
\* the loop condition: fetch, dispatch, idx += 1
StepOnce(v, a, st) ==
    IF ~PyIndexOK(a, st.idx) THEN [st EXCEPT !.err = "arr"]
    ELSE LET b == At(a, st.idx)
             f == [st EXCEPT !.reads = @ \cup {st.idx}]
             r == IF IsBackref(b) THEN DoBackref(v, a, f, b)
                  ELSE IF Bit5(b)
                       THEN (IF Bit6(b) THEN DoAlt(a, f, b) ELSE DoSingle(a, f, b))
                       ELSE (IF Bit6(b) THEN DoPair(a, f, b) ELSE DoLiteral(a, f, b))
         IN  IF r.err # "none" THEN r ELSE [r EXCEPT !.idx = @ + 1]

\* the while loop of unpack_tiles / unpack run from the frame st to its end:
\* the frame at normal loop exit, or the frame with err set where it raised
RECURSIVE RunLoop(_, _, _, _)
RunLoop(v, a, sz, st) ==
    IF ~(st.idx <= sz /\ st.idx <= Len(a)) THEN st
    ELSE LET r == StepOnce(v, a, st)
         IN  IF r.err # "none" THEN r ELSE RunLoop(v, a, sz, r)

\* the while loop run from the frame st as RunLoop runs it, recording in tr
\* the cursor at which each iteration began and whether an opcode byte
\* >= 0x80 was fetched
RECURSIVE RunTrace(_, _, _, _, _)
RunTrace(v, a, sz, st, tr) ==
    IF ~(st.idx <= sz /\ st.idx <= Len(a))
    THEN [fr |-> st, cursors |-> tr.cursors, backref |-> tr.backref]
    ELSE LET r == StepOnce(v, a, st)
             t == [cursors |-> Append(tr.cursors, st.idx),
                   backref |-> tr.backref \/ (PyIndexOK(a, st.idx) /\ IsBackref(At(a, st.idx)))]
         IN  IF r.err # "none"
             THEN [fr |-> r, cursors |-> t.cursors, backref |-> t.backref]
             ELSE RunTrace(v, a, sz, r, t)

\* one call of the decoder on its own, up to the end of its while loop
UnpackAlone(v, d, addr) ==
    LET a == Slice(d, addr)
    IN  IF Len(a) < 2 THEN [Frame(2, << >>, 0, {}) EXCEPT !.err = "arr"]
        ELSE RunLoop(v, a, At(a, 0) * 256 + At(a, 1), Frame(2, << >>, 0, {0, 1}))

-----------------------------------------------------------------------------
(* Output file names *)

RECURSIVE HexDigits(_)
HexDigits(n) == IF n < 16 THEN <<n>> ELSE Append(HexDigits(n \div 16), n % 16)

RECURSIVE ZeroPad(_, _)
ZeroPad(s, w) == IF Len(s) >= w THEN s ELSE ZeroPad(<<0>> \o s, w)

\* f'tiles_{addr:06X}.bin' (split.py), f'tiles_{addr:02X}.bin' (unpacker.py):
\* the name is represented by its hexadecimal digits
FileName(v, addr) == ZeroPad(HexDigits(addr), IF v = "split" THEN 6 ELSE 2)

\* open(name, 'wb') followed by writing c
WriteFile(fs, name, c) == {f \in fs : f.name # name} \cup {[name |-> name, content |-> c]}

-----------------------------------------------------------------------------
(* The explored inputs *)

\* opcode bytes 0x00 0x01 0x20 0x40 0x60 0x80, which double as data bytes
Alphabet == {0, 1, 32, 64, 96, 128}

SeqsUpTo(S, n) == UNION {[1..k -> S] : k \in 0..n}

\* every header with a small declared size, and one with a large one,
\* followed by every body over Alphabet; and the buffers too short for a header
GenericRoms ==
    {h \o body : h \in {<<0, n>> : n \in 0..(MaxBody + 2)} \cup {<<1, 0>>},
                 body \in SeqsUpTo(Alphabet, MaxBody)}
    \cup {<< >>, <<0>>}

\* operand bytes for the opcode sweep, pairwise distinct over 36 positions
Ramp(i) == (37 * i + 11) % 256

\* every opcode byte below 0x80 followed by 36 operand bytes
RunSweepRoms == {<<1, 0, b>> \o [k \in 1..36 |-> Ramp(k)] : b \in 0..127}

\* every back-reference opcode byte with a small operand, after the
\* three literal bytes 01 02 03
BackrefSweepRoms ==
    {<<0, 7, 2, 1, 2, 3, b, s>> : b \in 128..255, s \in {0, 1, 2, 3, 5, 6, 255}}
    \cup {<<0, 7, 2, 1, 2, 3, b, s>> : b \in {128, 131, 255}, s \in 0..255}

\* the test vectors of the specification
GoldenRoms ==
    { <<0, 3, 33, 170>>,                 \* 0x21 0xAA
      <<0, 4, 65, 187, 204>>,            \* 0x41 0xBB 0xCC
      <<0, 6, 3, 17, 34, 51, 68>>,       \* 0x03 0x11 0x22 0x33 0x44
      <<0, 7, 2, 1, 2, 3, 144, 2>> }     \* 01 02 03 then distance 3, 6 bytes

Roms == GenericRoms \cup RunSweepRoms \cup BackrefSweepRoms \cup GoldenRoms

\* the buffers of the batch runs: every small block over 0x00 0x20 0x80, and
\* buffers that hold a decodable block at more than one address
BatchAlphabet == {0, 32, 128}

BatchRoms ==
    {<<0, n>> \o body : n \in 0..(MaxBatchBody + 2),
                        body \in SeqsUpTo(BatchAlphabet, MaxBatchBody)}
    \cup { <<0, 3, 0, 3, 32, 1>>,          \* blocks at 0 and at 2
           <<0, 5, 0, 7, 128, 0, 0>>,      \* literal, back-reference of distance 1
           <<0, 5, 0, 7, 128, 1, 0>>,      \* literal, back-reference of distance 2
           <<0, 0, 3, 0, 9, 0, 3, 32, 5>>, \* blocks at 1 and at 2
           <<0, 3, 33, 170>>,
           <<0, 4, 64, 1, 2, 0>>,          \* pair run
           <<0, 4, 96, 1, 2, 0>> }         \* alternating pair run

-----------------------------------------------------------------------------
(* State machine *)

\* the record kept of a dispatch iteration: the opcode byte b, the cursor,
\* output and read set before it, and the locals cnt, tmp, idx_window
Last(kind, b, st) ==
    [kind |-> kind, b |-> b, idx0 |-> idx, res0 |-> res, reads0 |-> reads,
     ok |-> st.err = "none", cnt |-> st.cnt, tmp |-> st.tmp, win |-> st.win]

NoOp ==
    [kind |-> "none", b |-> 0, idx0 |-> 0, res0 |-> << >>, reads0 |-> {},
     ok |-> TRUE, cnt |-> 0, tmp |-> 0, win |-> 0]

\* the state of main before its for loop
Loaded ==
    /\ pos = 1
    /\ pc = "main"
    /\ arr = << >>
    /\ size = 0
    /\ idx = 0
    /\ idx_res = 0
    /\ res = << >>
    /\ reads = {}
    /\ last = NoOp
    /\ error = "none"
    /\ outcome = << >>
    /\ success_count = 0
    /\ fail_count = 0
    /\ files = {}
    /\ exit_code = -1
    /\ results = << >>
    /\ iters = 0
    /\ workers = << >>

Init ==
    /\ variant \in {"split", "unpacker"}
    /\ data \in Roms
    /\ tiles_addrs \in {<<a>> : a \in 0..MaxAddr}
    /\ Loaded

\* what the handler prints: f'Error at address 0x{addr:06X}: {str(e)}' in
\* split.py, f'Error: {str(e)}' in unpacker.py; fields names the values the
\* line is formatted from, address holds the hexadecimal digits printed
ErrorMessage(v, addr, e) ==
    IF v = "split"
    THEN [fields |-> {"address", "exception"}, address |-> ZeroPad(HexDigits(addr), 6),
          exception |-> e]
    ELSE [fields |-> {"exception"}, address |-> << >>, exception |-> e]

\* no line is printed by the handler
NoMessage == [fields |-> {}, address |-> << >>, exception |-> "none"]

\* except Exception as e: the handler of the batch loop, then the next address
Except_m ==
    /\ outcome' = Append(outcome, "fail")
    /\ results' = Append(results, [addr |-> tiles_addrs[pos], ok |-> FALSE,
                                   err |-> error',
                                   out |-> IF error' = "type" THEN res ELSE << >>,
                                   msg |-> ErrorMessage(variant, tiles_addrs[pos], error')])
    /\ fail_count' = IF variant = "split" THEN fail_count + 1 ELSE fail_count
    /\ pos' = Len(tiles_addrs) + 1
    /\ pc' = "main"
    /\ UNCHANGED success_count

Except ==
    /\ outcome' = Append(outcome, "fail")
    /\ results' = Append(results, [addr |-> tiles_addrs[pos], ok |-> FALSE,
                                   err |-> error',
                                   out |-> IF error' = "type" THEN res ELSE << >>,
                                   msg |-> ErrorMessage(variant, tiles_addrs[pos], error')])
    /\ fail_count' = IF variant = "split" THEN fail_count + 1 ELSE fail_count
    /\ pos' = pos + 1
    /\ pc' = "main"
    /\ UNCHANGED success_count

\* normal return of the decoder into the batch loop
Return ==
    /\ outcome' = Append(outcome, "ok")
    /\ results' = Append(results, [addr |-> tiles_addrs[pos], ok |-> TRUE,
                                   err |-> "none", out |-> res, msg |-> NoMessage])
    /\ success_count' = IF variant = "split" THEN success_count + 1 ELSE success_count
    /\ pos' = pos + 1
    /\ pc' = "main"
    /\ UNCHANGED fail_count

CallUnpack_m ==
    /\ pc = "main"
    /\ pos <= Len(tiles_addrs)
    /\ LET a == Slice(data, tiles_addrs[pos])
       IN  /\ arr' = a
           /\ res' = res
           /\ idx' = 2
           /\ idx_res' = idx_res
           /\ last' = NoOp
           /\ iters' = 0
           /\ IF Len(a) < 2
              THEN /\ reads' = IF Len(a) = 1 THEN {0} ELSE {}
                   /\ error' = "arr"
                   /\ UNCHANGED size
                   /\ Except
              ELSE /\ reads' = {0, 1}
                   /\ error' = "none"
                   /\ size' = At(a, 0) * 256 + At(a, 1)
                   /\ pc' = "loop"
                   /\ UNCHANGED <<pos, outcome, success_count, fail_count, results>>
    /\ UNCHANGED <<variant, data, tiles_addrs, files, exit_code, workers>>

CallUnpack_m2 ==
    /\ pc = "main"
    /\ pos <= Len(tiles_addrs)
    /\ LET a == Slice(data, tiles_addrs[pos])
       IN  /\ arr' = a
           /\ res' = << >>
           /\ idx' = 2
           /\ idx_res' = idx_res
           /\ last' = NoOp
           /\ iters' = 0
           /\ IF Len(a) < 2
              THEN /\ reads' = IF Len(a) = 1 THEN {0} ELSE {}
                   /\ error' = "arr"
                   /\ UNCHANGED size
                   /\ Except
              ELSE /\ reads' = {0, 1}
                   /\ error' = "none"
                   /\ size' = At(a, 0) * 256 + At(a, 1)
                   /\ pc' = "loop"
                   /\ UNCHANGED <<pos, outcome, success_count, fail_count, results>>
    /\ UNCHANGED <<variant, data, tiles_addrs, files, exit_code, workers>>

CallUnpack_m3 ==
    /\ pc = "main"
    /\ pos <= Len(tiles_addrs)
    /\ LET a == Slice(data, tiles_addrs[pos])
       IN  /\ arr' = a
           /\ res' = << >>
           /\ idx' = 2
           /\ idx_res' = 0
           /\ last' = NoOp
           /\ iters' = 0
           /\ IF Len(a) < 2
              THEN /\ reads' = IF Len(a) = 1 THEN {0} ELSE {}
                   /\ error' = "arr"
                   /\ UNCHANGED size
                   /\ Except
              ELSE /\ reads' = {0, 1}
                   /\ error' = "none"
                   /\ size' = At(a, 0) + At(a, 1) * 256
                   /\ pc' = "loop"
                   /\ UNCHANGED <<pos, outcome, success_count, fail_count, results>>
    /\ UNCHANGED <<variant, data, tiles_addrs, files, exit_code, workers>>

\* for addr in tiles_addrs: unpack_tiles(data, addr, ...) up to the while loop
CallUnpack ==
    /\ pc = "main"
    /\ pos <= Len(tiles_addrs)
    /\ LET a == Slice(data, tiles_addrs[pos])
       IN  /\ arr' = a
           /\ res' = << >>
           /\ idx' = 2
           /\ idx_res' = 0
           /\ last' = NoOp
           /\ iters' = 0
           /\ IF Len(a) < 2
              THEN /\ reads' = IF Len(a) = 1 THEN {0} ELSE {}
                   /\ error' = "arr"
                   /\ UNCHANGED size
                   /\ Except
              ELSE /\ reads' = {0, 1}
                   /\ error' = "none"
                   /\ size' = At(a, 0) * 256 + At(a, 1)
                   /\ pc' = "loop"
                   /\ UNCHANGED <<pos, outcome, success_count, fail_count, results>>
    /\ UNCHANGED <<variant, data, tiles_addrs, files, exit_code, workers>>

LoopCond_m == idx <= size + 2 /\ idx <= Len(arr)

\* while idx <= size and idx <= len(arr)
LoopCond == idx <= size /\ idx <= Len(arr)

\* byte_read = arr[idx] raises when the cursor is at len(arr)
OpcodeOutOfRange ==
    /\ pc = "loop"
    /\ LoopCond
    /\ ~PyIndexOK(arr, idx)
    /\ last' = Last("opcode", 0, [Frame(idx, res, idx_res, reads) EXCEPT !.err = "arr"])
    /\ error' = "arr"
    /\ iters' = iters + 1
    /\ Except
    /\ UNCHANGED <<variant, data, tiles_addrs, arr, size, idx, idx_res, res, reads,
                   files, exit_code, workers>>

Iterate_m(kind, b, st) ==
    /\ last' = Last(kind, b, st)
    /\ res' = st.res
    /\ idx_res' = st.idx_res
    /\ reads' = st.reads
    /\ error' = st.err
    /\ iters' = iters + 1
    /\ IF st.err = "none"
       THEN /\ idx' = st.idx + 1
            /\ UNCHANGED <<pos, pc, outcome, success_count, fail_count, results>>
       ELSE /\ idx' = st.idx
            /\ Except
    /\ data' = IF st.res # << >> /\ Len(data) > 0
               THEN [data EXCEPT ![1] = st.res[Len(st.res)]]
               ELSE data
    /\ UNCHANGED <<variant, tiles_addrs, arr, size, files, exit_code, workers>>

Iterate_m2(kind, b, st) ==
    /\ last' = Last(kind, b, st)
    /\ res' = st.res
    /\ idx_res' = st.idx_res
    /\ reads' = st.reads
    /\ error' = st.err
    /\ iters' = iters + 1
    /\ IF st.err = "none"
       THEN /\ idx' = st.idx + 2
            /\ UNCHANGED <<pos, pc, outcome, success_count, fail_count, results>>
       ELSE /\ idx' = st.idx
            /\ Except
    /\ UNCHANGED <<variant, data, tiles_addrs, arr, size, files, exit_code, workers>>

Iterate_m3(kind, b, st) ==
    /\ last' = Last(kind, b, st)
    /\ res' = st.res
    /\ idx_res' = st.idx_res
    /\ reads' = st.reads
    /\ error' = st.err
    /\ iters' = iters + 1
    /\ IF st.err = "none"
       THEN /\ idx' = st.idx + 1
            /\ UNCHANGED <<pos, pc, outcome, success_count, fail_count, results, files>>
       ELSE /\ idx' = st.idx
            /\ files' = WriteFile(files, FileName(variant, tiles_addrs[pos]), st.res)
            /\ Except
    /\ UNCHANGED <<variant, data, tiles_addrs, arr, size, exit_code, workers>>

\* one iteration of the while loop whose opcode byte b is in the family kind:
\* st is the frame after the branch; idx += 1 closes the iteration
Iterate(kind, b, st) ==
    /\ last' = Last(kind, b, st)
    /\ res' = st.res
    /\ idx_res' = st.idx_res
    /\ reads' = st.reads
    /\ error' = st.err
    /\ iters' = iters + 1
    /\ IF st.err = "none"
       THEN /\ idx' = st.idx + 1
            /\ UNCHANGED <<pos, pc, outcome, success_count, fail_count, results>>
       ELSE /\ idx' = st.idx
            /\ Except
    /\ UNCHANGED <<variant, data, tiles_addrs, arr, size, files, exit_code, workers>>

\* the frame once byte_read = arr[idx] has been read
Fetched == Frame(idx, res, idx_res, reads \cup {idx})

Backref ==
    /\ pc = "loop" /\ LoopCond /\ PyIndexOK(arr, idx)
    /\ IsBackref(At(arr, idx))
    /\ Iterate("backref", At(arr, idx), DoBackref(variant, arr, Fetched, At(arr, idx)))

AltPair ==
    /\ pc = "loop" /\ LoopCond /\ PyIndexOK(arr, idx)
    /\ ~IsBackref(At(arr, idx)) /\ Bit5(At(arr, idx)) /\ Bit6(At(arr, idx))
    /\ Iterate("alt", At(arr, idx), DoAlt(arr, Fetched, At(arr, idx)))

SingleRun ==
    /\ pc = "loop" /\ LoopCond /\ PyIndexOK(arr, idx)
    /\ ~IsBackref(At(arr, idx)) /\ Bit5(At(arr, idx)) /\ ~Bit6(At(arr, idx))
    /\ Iterate("single", At(arr, idx), DoSingle(arr, Fetched, At(arr, idx)))

PairRun ==
    /\ pc = "loop" /\ LoopCond /\ PyIndexOK(arr, idx)
    /\ ~IsBackref(At(arr, idx)) /\ ~Bit5(At(arr, idx)) /\ Bit6(At(arr, idx))
    /\ Iterate("pair", At(arr, idx), DoPair(arr, Fetched, At(arr, idx)))

Literal ==
    /\ pc = "loop" /\ LoopCond /\ PyIndexOK(arr, idx)
    /\ ~IsBackref(At(arr, idx)) /\ ~Bit5(At(arr, idx)) /\ ~Bit6(At(arr, idx))
    /\ Iterate("literal", At(arr, idx), DoLiteral(arr, Fetched, At(arr, idx)))

LoopExit_m ==
    /\ pc = "loop"
    /\ ~LoopCond
    /\ LET name == FileName(variant, tiles_addrs[pos])
       IN  IF idx # size + 1
           THEN UNCHANGED files /\ error' = "size" /\ Except
           ELSE IF variant = "split"
           THEN /\ files' = WriteFile(files, name, res)
                /\ UNCHANGED error
                /\ Return
           ELSE /\ files' = WriteFile(files, name, << >>)
                /\ IF res = << >>
                   THEN UNCHANGED error /\ Return
                   ELSE error' = "type" /\ Except
    /\ UNCHANGED <<variant, data, tiles_addrs, arr, size, idx, idx_res, res, reads,
                   last, exit_code, iters, workers>>

\* the while loop ends: the output file is written and the decoder returns.
\* unpacker.py opens the file and then passes ints to write(), a TypeError
\* on the first byte of a non-empty output
LoopExit ==
    /\ pc = "loop"
    /\ ~LoopCond
    /\ LET name == FileName(variant, tiles_addrs[pos])
       IN  IF variant = "split"
           THEN /\ files' = WriteFile(files, name, res)
                /\ UNCHANGED error
                /\ Return
           ELSE /\ files' = WriteFile(files, name, << >>)
                /\ IF res = << >>
                   THEN UNCHANGED error /\ Return
                   ELSE error' = "type" /\ Except
    /\ UNCHANGED <<variant, data, tiles_addrs, arr, size, idx, idx_res, res, reads,
                   last, exit_code, iters, workers>>

\* the batch loop is over: return 1 if fail_count > 0 else 0
MainExit ==
    /\ pc = "main"
    /\ pos > Len(tiles_addrs)
    /\ pc' = "exit"
    /\ exit_code' = IF variant = "split" /\ fail_count > 0 THEN 1 ELSE 0
    /\ UNCHANGED <<variant, data, tiles_addrs, pos, arr, size, idx, idx_res, res,
                   reads, last, error, outcome, success_count, fail_count, files,
                   results, iters, workers>>

Next ==
    \/ CallUnpack
    \/ OpcodeOutOfRange
    \/ Backref
    \/ AltPair
    \/ SingleRun
    \/ PairRun
    \/ Literal
    \/ LoopExit
    \/ MainExit

Spec == Init /\ [][Next]_vars

\* the batch loop over an address list of any length up to MaxList
InitBatch ==
    /\ variant \in {"split", "unpacker"}
    /\ data \in BatchRoms
    /\ tiles_addrs \in SeqsUpTo(0..MaxBatchAddr, MaxList)
    /\ Loaded

SpecBatch == InitBatch /\ [][Next]_vars


-----------------------------------------------------------------------------
(* Concurrent decodes: NWorkers calls of unpack_tiles on one ROM buffer,  *)
(* worker w decoding the block at tiles_addrs[w]; a step of a worker is   *)
(* the function prologue, one iteration of the while loop, or the write   *)
(* of the output file, and the steps of the workers interleave freely.    *)

ParRoms ==
    {<<0, n>> \o body : n \in 0..(MaxParBody + 2),
                        body \in SeqsUpTo(BatchAlphabet, MaxParBody)}
    \cup { <<0, 3, 0, 3, 32, 1>>,
           <<0, 5, 0, 7, 128, 0, 0>>,
           <<0, 5, 0, 7, 128, 1, 0>>,
           <<0, 0, 3, 0, 9, 0, 3, 32, 5>> }

InitPar ==
    /\ variant = "split"
    /\ data \in ParRoms
    /\ tiles_addrs \in [1..NWorkers -> 0..MaxBatchAddr]
    /\ workers = [w \in 1..NWorkers |->
                    [pc |-> "start", addr |-> tiles_addrs[w], arr |-> << >>,
                     size |-> 0, fr |-> Frame(2, << >>, 0, {})]]
    /\ pc = "par"
    /\ pos = 1
    /\ arr = << >>
    /\ size = 0
    /\ idx = 0
    /\ idx_res = 0
    /\ res = << >>
    /\ reads = {}
    /\ last = NoOp
    /\ error = "none"
    /\ outcome = << >>
    /\ success_count = 0
    /\ fail_count = 0
    /\ files = {}
    /\ exit_code = -1
    /\ results = << >>
    /\ iters = 0

OnlyWorkers ==
    UNCHANGED <<variant, data, tiles_addrs, pos, pc, arr, size, idx, idx_res, res,
                reads, last, error, outcome, success_count, fail_count, exit_code,
                results, iters>>

WorkerFrame_m(w) ==
    [workers[w].fr EXCEPT !.res = workers[1].fr.res, !.idx_res = workers[1].fr.idx_res]

\* the locals of worker w's call
WorkerFrame(w) == workers[w].fr

\* arr = data[addr:] ... size = arr[0] * 0x100 + arr[1]
WorkerCall(w) ==
    /\ workers[w].pc = "start"
    /\ LET a == Slice(data, workers[w].addr)
       IN  workers' = [workers EXCEPT ![w] =
              IF Len(a) < 2
              THEN [@ EXCEPT !.pc = "failed", !.arr = a, !.fr.err = "arr"]
              ELSE [@ EXCEPT !.pc = "loop", !.arr = a,
                             !.size = At(a, 0) * 256 + At(a, 1),
                             !.fr = Frame(2, << >>, 0, {0, 1})]]
    /\ UNCHANGED files
    /\ OnlyWorkers

\* one iteration of worker w's while loop
WorkerIterate(w) ==
    /\ workers[w].pc = "loop"
    /\ WorkerFrame(w).idx <= workers[w].size
    /\ WorkerFrame(w).idx <= Len(workers[w].arr)
    /\ LET r == StepOnce(variant, workers[w].arr, WorkerFrame(w))
       IN  workers' = [workers EXCEPT ![w] =
              [@ EXCEPT !.fr = r, !.pc = IF r.err = "none" THEN "loop" ELSE "failed"]]
    /\ UNCHANGED files
    /\ OnlyWorkers

\* worker w's loop ends: it writes its file and returns
WorkerExit(w) ==
    /\ workers[w].pc = "loop"
    /\ ~(WorkerFrame(w).idx <= workers[w].size /\ WorkerFrame(w).idx <= Len(workers[w].arr))
    /\ files' = WriteFile(files, FileName(variant, workers[w].addr), WorkerFrame(w).res)
    /\ workers' = [workers EXCEPT ![w].pc = "done"]
    /\ OnlyWorkers

NextPar ==
    \E w \in DOMAIN workers :
        \/ WorkerCall(w)
        \/ WorkerIterate(w)
        \/ WorkerExit(w)

SpecPar == InitPar /\ [][NextPar]_vars

-----------------------------------------------------------------------------
(* The program under the scheduling of a sequential process: it takes its *)
(* next step as long as it has one.                                       *)

InitLive ==
    /\ variant \in {"split", "unpacker"}
    /\ data \in ParRoms \cup GoldenRoms \cup {<<0, 5>> \o body : body \in SeqsUpTo({0, 32, 96}, 5)}
    /\ tiles_addrs \in {<<a>> : a \in 0..MaxAddr}
    /\ Loaded

FairSpec == InitLive /\ [][Next]_vars /\ WF_vars(Next)

-----------------------------------------------------------------------------
(* Both decoders on every back-reference: the literal 07, then every      *)
(* opcode byte 0x80..0xFF with every operand byte.                        *)

DistRoms == {<<0, 4, 0, 7, b, s>> : b \in 128..255, s \in 0..255}

InitDist ==
    /\ variant \in {"split", "unpacker"}
    /\ data \in DistRoms \cup GoldenRoms \cup {<<0, 4, 96, 1, 2, 0>>, <<0, 9, 33, 170>>}
    /\ tiles_addrs = <<0>>
    /\ Loaded

SpecDist == InitDist /\ [][Next]_vars

-----------------------------------------------------------------------------
(* A run into an output directory that already exists (os.makedirs with   *)
(* exist_ok) and may hold files of an earlier run under the names this    *)
(* run would use.                                                         *)

\* content of a file left by an earlier run
Stale == <<255, 255>>

InitRerun ==
    /\ variant \in {"split", "unpacker"}
    /\ data \in ParRoms \cup {<<0, 4, 64, 1, 2, 0>>, <<0, 4, 96, 1, 2, 0>>}
    /\ tiles_addrs \in {<<a>> : a \in 0..MaxAddr}
    /\ \E S \in SUBSET (0..MaxAddr) :
          files = {[name |-> FileName(variant, a), content |-> Stale] : a \in S}
    /\ pos = 1
    /\ pc = "main"
    /\ arr = << >>
    /\ size = 0
    /\ idx = 0
    /\ idx_res = 0
    /\ res = << >>
    /\ reads = {}
    /\ last = NoOp
    /\ error = "none"
    /\ outcome = << >>
    /\ success_count = 0
    /\ fail_count = 0
    /\ exit_code = -1
    /\ results = << >>
    /\ iters = 0
    /\ workers = << >>

SpecRerun == InitRerun /\ [][Next]_vars

-----------------------------------------------------------------------------
(* Vocabulary of the properties *)

\* the last step was a dispatch iteration that fetched an opcode byte
OpDone == last.kind \in {"backref", "alt", "single", "pair", "literal"}

\* output length before the last dispatch iteration
L0 == Len(last.res0)

\* the k-th input byte after the opcode byte of the last dispatch iteration
Operand(k) == At(arr, last.idx0 + k)

\* the bytes the last dispatch iteration appended
Appended == SubSeq(res, L0 + 1, Len(res))

\* the while loop of the block last attempted has ended without an exception
LoopEnded == pc # "loop" /\ Len(outcome) >= 1 /\ error \in {"none", "type"}

\* the block last attempted failed
BlockFailed == pc # "loop" /\ Len(outcome) >= 1 /\ outcome[Len(outcome)] = "fail"

\* the opcode stream of the current block is exactly the bytes ops
BlockIs(ops) ==
    /\ Len(arr) >= 2 + Len(ops)
    /\ SubSeq(arr, 3, 2 + Len(ops)) = ops
    /\ size >= 2
    /\ size <= Len(ops) + 1

\* address of the block last attempted
LastAddr == tiles_addrs[Len(outcome)]

-----------------------------------------------------------------------------
(* C1: whenever a back-reference computes a distance greater than the     *)
(* current output length, the iteration ends in an error; it never        *)
(* completes by copying bytes from some other position of the output.     *)
C1_InvalidBackrefFatal ==
    (last.kind = "backref" /\ last.tmp > L0) => ~last.ok

(* C2: in unpack_tiles a back-reference with opcode byte b and operand s  *)
(* computes cnt = ((b >> 2) & 0x1F) + 1 and distance                      *)
(* (((b << 8) + s) & 0x3FF) + 1 = ((b & 3) * 256 + s) + 1 in 1..1024,     *)
(* starts its window at output length - distance, and on completion has   *)
(* appended exactly cnt + 1 bytes (2..33), the bytes found from that       *)
(* index on.                                                              *)
C2_BackrefDecoding ==
    (variant = "split" /\ last.kind = "backref" /\ PyIndexOK(arr, last.idx0 + 1)) =>
        LET b   == last.b
            s   == Operand(1)
            cnt == ((b \div 4) % 32) + 1
            d   == (((b * 256) + s) % 1024) + 1
        IN  /\ last.cnt = cnt
            /\ last.tmp = d
            /\ d \in 1..1024
            /\ d = ((b % 4) * 256 + s) + 1
            /\ last.win = L0 - d
            /\ last.ok =>
                 /\ Len(res) = L0 + cnt + 1
                 /\ cnt + 1 \in 2..33
                 /\ idx = last.idx0 + 2
                 /\ d <= L0 => \A k \in 0..cnt : res[L0 + k + 1] = res[L0 - d + k + 1]

C2_Witness ==
    /\ variant = "split" /\ last.kind = "backref" /\ last.ok
    /\ last.b = 252 /\ last.tmp = 2 /\ L0 = 3 /\ Len(res) = 36

(* C3: a completed back-reference whose distance d is smaller than the    *)
(* number n of bytes it copies repeats the last d bytes of the prior      *)
(* output periodically: appended byte k is prior byte L - d + (k mod d);  *)
(* after 01 02 03, distance 3 and n = 6 append 01 02 03 01 02 03.         *)
C3_SelfOverlap ==
    /\ (last.kind = "backref" /\ last.ok /\ last.tmp <= L0 /\ last.tmp < Len(res) - L0) =>
          \A k \in 0..(Len(res) - L0 - 1) :
              res[L0 + k + 1] = last.res0[L0 - last.tmp + (k % last.tmp) + 1]
    /\ (last.kind = "backref" /\ last.ok /\ last.tmp = 3 /\ last.cnt + 1 = 6
        /\ L0 >= 3 /\ SubSeq(last.res0, L0 - 2, L0) = <<1, 2, 3>>) =>
          Appended = <<1, 2, 3, 1, 2, 3>>

C3_Witness ==
    /\ variant = "split" /\ data = <<0, 7, 2, 1, 2, 3, 144, 2>>
    /\ last.kind = "backref" /\ last.ok /\ last.tmp = 3
    /\ res = <<1, 2, 3, 1, 2, 3, 1, 2, 3>>

(* C4, as stated: the block 0x21 0xAA decodes to exactly the two bytes    *)
(* 0xAA 0xAA.                                                             *)
C4_SingleRunGolden ==
    (BlockIs(<<33, 170>>) /\ LoopEnded) => res = <<170, 170>>

(* C4, amended: the block 0x21 0xAA decodes to exactly the three bytes    *)
(* 0xAA 0xAA 0xAA.                                                        *)
C4_SingleRunGoldenAmended ==
    (BlockIs(<<33, 170>>) /\ LoopEnded) => res = <<170, 170, 170>>

C4_Witness ==
    /\ BlockIs(<<33, 170>>) /\ LoopEnded
    /\ variant = "split" /\ outcome = <<"ok">>
    /\ [name |-> FileName("split", 0), content |-> <<170, 170, 170>>] \in files

(* C5, as stated: the block 0x41 0xBB 0xCC decodes to exactly the four    *)
(* bytes 0xBB 0xCC 0xBB 0xCC.                                             *)
C5_PairRunGolden ==
    (BlockIs(<<65, 187, 204>>) /\ LoopEnded) => res = <<187, 204, 187, 204>>

(* C5, amended: the block 0x41 0xBB 0xCC decodes to exactly three         *)
(* repetitions of the pair, the six bytes 0xBB 0xCC 0xBB 0xCC 0xBB 0xCC.  *)
C5_PairRunGoldenAmended ==
    (BlockIs(<<65, 187, 204>>) /\ LoopEnded) => res = <<187, 204, 187, 204, 187, 204>>

C5_Witness ==
    /\ BlockIs(<<65, 187, 204>>) /\ LoopEnded
    /\ last.kind = "pair" /\ last.ok /\ Len(res) = 6 /\ idx = 5

(* C6: an opcode byte b with b & 0xE0 = 0 is a literal run; when it       *)
(* completes it has appended the next (b & 0x1F) + 1 input bytes, in      *)
(* order, and nothing else; 0x03 0x11 0x22 0x33 0x44 decodes to           *)
(* 0x11 0x22 0x33 0x44 with 4 operand bytes consumed.                     *)
C6_LiteralRun ==
    /\ (OpDone /\ last.b < 32) => last.kind = "literal"
    /\ (last.kind = "literal" /\ last.ok) =>
          LET n == (last.b % 32) + 1
          IN  /\ last.b < 32
              /\ res = last.res0 \o SubSeq(arr, last.idx0 + 2, last.idx0 + 1 + n)
              /\ idx = last.idx0 + n + 1
              /\ reads = last.reads0 \cup (last.idx0..(last.idx0 + n))
    /\ (BlockIs(<<3, 17, 34, 51, 68>>) /\ LoopEnded) =>
          /\ res = <<17, 34, 51, 68>>
          /\ idx - 3 = 4

C6_Witness ==
    /\ BlockIs(<<3, 17, 34, 51, 68>>) /\ LoopEnded
    /\ last.kind = "literal" /\ last.ok /\ res = <<17, 34, 51, 68>>

(* C7: an opcode byte b with bit 0x80 clear, bit 0x20 set and bit 0x40    *)
(* clear is a single-byte run; when it completes it has consumed exactly  *)
(* one operand byte s and appended s exactly cnt + 1 times,               *)
(* cnt = (b & 0x1F) + 1, that is 2 to 33 copies.                          *)
C7_SingleRun ==
    /\ (OpDone /\ last.b \in 32..63) => last.kind = "single"
    /\ (last.kind = "single" /\ last.ok) =>
          LET cnt == (last.b % 32) + 1
          IN  /\ last.b \in 32..63
              /\ res = last.res0 \o [k \in 1..(cnt + 1) |-> Operand(1)]
              /\ cnt + 1 \in 2..33
              /\ idx = last.idx0 + 2
              /\ reads = last.reads0 \cup {last.idx0, last.idx0 + 1}

C7_Witness ==
    /\ last.kind = "single" /\ last.ok /\ last.b = 63
    /\ Len(res) = 33 /\ res[33] = Ramp(1)

(* C8: an opcode byte b with bits 0x80 and 0x20 clear and bit 0x40 set is *)
(* a two-byte pattern run; when it completes it has consumed exactly two  *)
(* operand bytes s1, s2 and appended the pair cnt + 1 times,              *)
(* cnt = (b & 0x1F) + 1, 2 * (cnt + 1) bytes in all.                      *)
C8_PairRun ==
    /\ (OpDone /\ last.b \in 64..95) => last.kind = "pair"
    /\ (last.kind = "pair" /\ last.ok) =>
          LET cnt == (last.b % 32) + 1
          IN  /\ last.b \in 64..95
              /\ res = last.res0 \o [k \in 1..(2 * (cnt + 1)) |->
                                        IF k % 2 = 1 THEN Operand(1) ELSE Operand(2)]
              /\ idx = last.idx0 + 3
              /\ reads = last.reads0 \cup (last.idx0..(last.idx0 + 2))

C8_Witness ==
    /\ last.kind = "pair" /\ last.ok /\ last.b = 95
    /\ Len(res) = 66 /\ res[65] = Ramp(1) /\ res[66] = Ramp(2)

(* C9: an opcode byte b with bit 0x80 clear and bits 0x20 and 0x40 set is *)
(* an alternating-pair run; when it completes it has read one fixed byte  *)
(* z and cnt + 1 further bytes x_1.., cnt = (b & 0x1F) + 1, and appended  *)
(* z, x_1, z, x_2, ..., z, x_(cnt+1): 2 * (cnt + 1) output bytes,         *)
(* cnt + 2 operand bytes.                                                 *)
C9_AltPairRun ==
    /\ (OpDone /\ last.b \in 96..127) => last.kind = "alt"
    /\ (last.kind = "alt" /\ last.ok) =>
          LET cnt == (last.b % 32) + 1
          IN  /\ last.b \in 96..127
              /\ res = last.res0 \o [k \in 1..(2 * (cnt + 1)) |->
                                        IF k % 2 = 1 THEN Operand(1)
                                                     ELSE Operand(1 + (k \div 2))]
              /\ idx = last.idx0 + cnt + 3
              /\ reads = last.reads0 \cup (last.idx0..(last.idx0 + cnt + 2))

C9_Witness ==
    /\ last.kind = "alt" /\ last.ok /\ last.b = 127
    /\ Len(res) = 66 /\ res[65] = Ramp(1) /\ res[66] = Ramp(34)

\* number of operand bytes the opcode of the last dispatch iteration needs
OperandsNeeded ==
    CASE last.kind = "backref" -> 1
      [] last.kind = "single"  -> 1
      [] last.kind = "pair"    -> 2
      [] last.kind = "alt"     -> (last.b % 32) + 3
      [] last.kind = "literal" -> (last.b % 32) + 1
      [] OTHER                 -> 0

(* C10: no byte outside the buffer is ever read, and an opcode that needs *)
(* an operand byte at or beyond the end of the buffer ends the decoding   *)
(* of its block in an error, with no output file written for the block.   *)
C10_TruncatedInput ==
    /\ reads \subseteq 0..(Len(arr) - 1)
    /\ (OpDone /\ last.idx0 + OperandsNeeded >= Len(arr)) =>
          /\ ~last.ok
          /\ BlockFailed
          /\ \A f \in files : f.name # FileName(variant, LastAddr)

C10_Witness ==
    /\ last.kind = "literal" /\ ~last.ok /\ error = "arr"
    /\ last.idx0 + OperandsNeeded >= Len(arr)
    /\ Len(res) >= 1 /\ BlockFailed /\ files = {}

-----------------------------------------------------------------------------
(* C11: while a block is decoded no input byte is read at a block-relative *)
(* offset greater than the declared size, operand bytes of the last       *)
(* opcode included (the two header bytes aside).                          *)
C11_DeclaredSizeBoundsReads ==
    Len(arr) >= 2 => (reads \ {0, 1}) \subseteq 0..size

(* C12: when the declared size ends one byte before the last operand byte *)
(* of an opcode whose opcode byte is within the declared size, the        *)
(* iteration raises a truncation error instead of completing.             *)
C12_SizeOneShortRaises ==
    (OpDone /\ last.idx0 <= size /\ size = last.idx0 + OperandsNeeded - 1) =>
        (~last.ok /\ error = "arr" /\ BlockFailed)

-----------------------------------------------------------------------------
(* C13: the batch loop attempts each address exactly once, in list order; *)
(* a failing block does not keep the following addresses from being       *)
(* decoded; in main of split.py success_count + fail_count is the number  *)
(* of addresses attempted, all of them on completion, and fail_count is   *)
(* the number of blocks whose decode raised.                              *)
C13_BatchTally ==
    /\ Len(results) <= Len(tiles_addrs)
    /\ \A i \in 1..Len(results) : results[i].addr = tiles_addrs[i]
    /\ pc = "main" => Len(results) = pos - 1
    /\ pc = "loop" => Len(results) = pos - 1 /\ pos <= Len(tiles_addrs)
    /\ pc = "exit" => Len(results) = Len(tiles_addrs)
    /\ variant = "split" =>
          /\ success_count + fail_count = Len(results)
          /\ fail_count = Cardinality({i \in 1..Len(results) : ~results[i].ok})
          /\ pc = "exit" => success_count + fail_count = Len(tiles_addrs)

C13_Witness ==
    /\ pc = "exit" /\ variant = "split" /\ Len(tiles_addrs) = 2
    /\ ~results[1].ok /\ results[2].ok /\ results[2].out # << >>
    /\ success_count = 1 /\ fail_count = 1

-----------------------------------------------------------------------------
(* C14: for every block whose decode loop ends without error one file     *)
(* holds exactly the decoded bytes, under a name computed from the        *)
(* block's address alone, and different addresses give different names.   *)
C14_OutputArtifact ==
    /\ LoopEnded => [name |-> FileName(variant, LastAddr), content |-> res] \in files
    /\ \A a, b \in {0, 1, 15, 16, 255, 256, 4096} :
          a # b => FileName(variant, a) # FileName(variant, b)

(* C15: the output buffer is empty at the start of every block, and what  *)
(* a batch decodes for the block at an address (bytes or error) is what   *)
(* the decoder gives for that address on its own, whatever blocks were    *)
(* decoded before it.                                                     *)
C15_BlockIsolation ==
    /\ (pc = "loop" /\ last = NoOp) => (res = << >> /\ idx_res = 0)
    /\ pc = "loop" =>
          LET r == UnpackAlone(variant, data, tiles_addrs[pos])
          IN  Len(res) <= Len(r.res) /\ SubSeq(r.res, 1, Len(res)) = res
    /\ \A i \in 1..Len(results) :
          LET r == UnpackAlone(variant, data, results[i].addr)
          IN  IF r.err = "none"
              THEN results[i].err \in {"none", "type"} /\ results[i].out = r.res
              ELSE results[i].err = r.err /\ ~results[i].ok

C15_Witness ==
    /\ data = <<0, 5, 0, 7, 128, 0, 0>> /\ tiles_addrs = <<0, 2>> /\ variant = "split"
    /\ Len(results) = 2
    /\ results[1].ok /\ results[1].out = <<7, 7, 7>>
    /\ ~results[2].ok /\ results[2].err = "res"

(* C16: decoding the same address twice against the same ROM buffer gives *)
(* the same outcome both times: the same error, or the same output bytes. *)
C16_Determinism ==
    \A i, j \in 1..Len(results) :
        results[i].addr = results[j].addr => results[i] = results[j]

C16_Witness ==
    /\ data = <<0, 5, 0, 7, 128, 0, 0>> /\ tiles_addrs = <<0, 0>> /\ variant = "split"
    /\ Len(results) = 2
    /\ results[1].ok /\ results[2].ok /\ results[2].out = <<7, 7, 7>>

-----------------------------------------------------------------------------
(* C17: when several blocks are decoded by workers whose steps interleave *)
(* arbitrarily, every worker's output (or error) is that of decoding its  *)
(* block alone, and a step of one worker changes no other worker's state  *)
(* nor the ROM buffer.                                                    *)
C17_WorkerAlone ==
    \A w \in DOMAIN workers :
        LET r == UnpackAlone(variant, data, workers[w].addr)
            f == workers[w].fr
        IN  /\ workers[w].pc = "done" =>
                 /\ r.err = "none" /\ f.res = r.res
                 /\ [name |-> FileName(variant, workers[w].addr), content |-> r.res] \in files
            /\ workers[w].pc = "failed" => (r.err # "none" /\ f.err = r.err)
            /\ workers[w].pc = "loop" =>
                 (Len(f.res) <= Len(r.res) /\ SubSeq(r.res, 1, Len(f.res)) = f.res)

C17_OneWorkerStep ==
    /\ data' = data
    /\ \A w1, w2 \in DOMAIN workers :
          (w1 # w2 /\ workers'[w1] # workers[w1]) => workers'[w2] = workers[w2]

C17_ParallelDecoding == [](C17_WorkerAlone) /\ [][C17_OneWorkerStep]_vars

C17_Witness ==
    /\ data = <<0, 5, 0, 7, 128, 0, 0>> /\ tiles_addrs = <<0, 2>>
    /\ workers[1].pc = "done" /\ workers[1].fr.res = <<7, 7, 7>>
    /\ workers[2].pc = "failed" /\ workers[2].fr.err = "res"

-----------------------------------------------------------------------------
(* C18: the ROM buffer passed to the decoder is never changed, whether    *)
(* the block succeeds or fails.                                           *)
C18_RomReadOnly == [][data' = data]_vars

C18_Witness ==
    /\ pc = "exit" /\ data = <<0, 7, 2, 1, 2, 3, 144, 2>> /\ tiles_addrs = <<0>>
    /\ results = <<[addr |-> 0, ok |-> TRUE, err |-> "none",
                   out |-> <<1, 2, 3, 1, 2, 3, 1, 2, 3>>, msg |-> NoMessage]>>

(* C19: the loop stops normally as soon as the cursor is greater than the *)
(* declared size or at least the number of input bytes available: no      *)
(* dispatch iteration begins, and so no error is raised, with the cursor  *)
(* at the available input length.                                         *)
C19_TerminalCondition ==
    last.kind # "none" => (last.idx0 <= size /\ last.idx0 < Len(arr))

(* C20: the cursor starts at 2 and strictly increases in every completed  *)
(* dispatch iteration, the number of dispatch iterations of a block never *)
(* exceeds its declared size, and every decoding terminates.              *)
C20_IterationBound ==
    /\ pc = "loop" => idx >= 2
    /\ (OpDone /\ last.ok) => idx > last.idx0
    /\ Len(arr) >= 2 => iters <= size
    /\ Len(arr) < 2 => iters = 0

C20_Termination == [](C20_IterationBound) /\ <>(pc = "exit")

C20_Witness ==
    /\ pc = "exit" /\ iters = 2 /\ size = 5 /\ idx = 6
    /\ Len(results) = 1 /\ results[1].ok

-----------------------------------------------------------------------------
\* cursor advance of a completed dispatch iteration of the last opcode's
\* family: the opcode byte and its operand bytes
Advance ==
    CASE last.kind = "backref" -> 2
      [] last.kind = "single"  -> 2
      [] last.kind = "pair"    -> 3
      [] last.kind = "alt"     -> ((last.b % 32) + 1) + 3
      [] last.kind = "literal" -> (last.b % 32) + 2
      [] OTHER                 -> 0

(* C21: a completed dispatch iteration moves the cursor forward by 1 plus *)
(* the operand bytes of its opcode (2 for back-reference and single-byte  *)
(* run, 3 for two-byte pattern, cnt + 3 for alternating pairs, cnt + 2    *)
(* for literal); it reads exactly the bytes from its opcode byte up to    *)
(* the byte before the new cursor, none of which was read before, so no   *)
(* input byte is skipped and none serves as operand and as opcode.        *)
C21_CursorAdvance ==
    /\ (pc = "loop" /\ error = "none") => reads = 0..(idx - 1)
    /\ (OpDone /\ last.ok) =>
          /\ idx = last.idx0 + Advance
          /\ last.reads0 = 0..(last.idx0 - 1)
          /\ reads = last.reads0 \cup (last.idx0..(idx - 1))

C21_Witness ==
    /\ last.kind = "alt" /\ last.ok /\ last.b = 127 /\ last.idx0 = 2
    /\ idx = 37 /\ reads = 0..36

-----------------------------------------------------------------------------
(* C22: the declared size is the first byte at the block address times    *)
(* 256 plus the second; decoding starts with the cursor at offset 2 of    *)
(* the block and an empty output; no dispatch iteration takes its opcode  *)
(* byte or an operand byte from the two header bytes.                     *)
C22_HeaderAndStart ==
    /\ pc = "loop" =>
          /\ arr = Slice(data, tiles_addrs[pos])
          /\ size = data[tiles_addrs[pos] + 1] * 256 + data[tiles_addrs[pos] + 2]
          /\ size \in 0..65535
          /\ idx >= 2
    /\ (pc = "loop" /\ last = NoOp) => (idx = 2 /\ res = << >> /\ reads = {0, 1})
    /\ last.kind # "none" =>
          /\ last.idx0 >= 2
          /\ {0, 1} \subseteq last.reads0
          /\ \A i \in reads \ last.reads0 : i >= last.idx0

C22_Witness ==
    /\ pc = "loop" /\ last = NoOp /\ tiles_addrs = <<1>>
    /\ data[2] = 1 /\ data[3] = 0 /\ size = 256 /\ idx = 2 /\ Len(arr) >= 3

-----------------------------------------------------------------------------
(* C23: while a block is decoded the output never gets shorter and a byte *)
(* once written at an index never changes, in every step, failing ones    *)
(* included; a completed dispatch iteration appends at least 1 and at     *)
(* most 66 bytes.                                                         *)
C23_Growth ==
    /\ (OpDone /\ last.ok) => (Len(res) - L0) \in 1..66
    /\ last.kind # "none" => (Len(res) >= L0 /\ SubSeq(res, 1, L0) = last.res0)

C23_Step ==
    pc = "loop" => (Len(res') >= Len(res) /\ SubSeq(res', 1, Len(res)) = res)

C23_AppendOnly == [](C23_Growth) /\ [][C23_Step]_vars

C23_Witness ==
    /\ last.kind = "literal" /\ last.ok /\ iters = 2 /\ L0 = 2
    /\ Len(res) = 3 /\ SubSeq(res, 1, 2) = last.res0 /\ pc = "loop"

-----------------------------------------------------------------------------
(* C24: every read of a completed back-reference copy, the k-th at index  *)
(* idx_window + k with the output then L + k bytes long, uses an index    *)
(* that is non-negative and less than the output length at that moment.   *)
C24_WindowInvariant ==
    (last.kind = "backref" /\ last.ok) =>
        \A k \in 0..last.cnt : (last.win + k >= 0 /\ last.win + k < L0 + k)

-----------------------------------------------------------------------------
(* C25: for a back-reference opcode byte b and operand s, unpack computes *)
(* the distance ((((b + s) << 8) & 0xFFFF) & 0x3FF) + 1 and unpack_tiles  *)
(* (((b << 8) + s) & 0x3FF) + 1; the two are equal exactly when s = 0,    *)
(* and the distance of unpack is one of 1, 257, 513, 769.                 *)
C25_DistanceFormulas ==
    (last.kind = "backref" /\ PyIndexOK(arr, last.idx0 + 1)) =>
        LET b  == last.b
            s  == Operand(1)
            du == ((((b + s) * 256) % 65536) % 1024) + 1
            ds == (((b * 256) + s) % 1024) + 1
        IN  /\ b >= 128
            /\ variant = "unpacker" => last.tmp = du
            /\ variant = "split" => last.tmp = ds
            /\ DistanceUnpacker(b, s) = du
            /\ DistanceSplit(b, s) = ds
            /\ (du = ds) <=> (s = 0)
            /\ du \in {1, 257, 513, 769}
            /\ ds \in 1..1024

C25_Witness ==
    /\ variant = "unpacker" /\ last.kind = "backref" /\ last.b = 131
    /\ Operand(1) = 255 /\ last.tmp = 513 /\ DistanceSplit(131, 255) = 1024

-----------------------------------------------------------------------------
(* C26: whenever the decoding of a block fails, the line reported for the *)
(* failure gives the address of the block and the cursor position at      *)
(* which it failed.                                                       *)
C26_FailureReport ==
    \A i \in 1..Len(results) :
        ~results[i].ok =>
            /\ "address" \in results[i].msg.fields
            /\ results[i].msg.address = ZeroPad(HexDigits(results[i].addr), 6)
            /\ "cursor" \in results[i].msg.fields

-----------------------------------------------------------------------------
(* C27: once an opcode has completed with the cursor beyond the declared  *)
(* size, by exactly one or by more, the decode loop ends without raising; *)
(* in unpack_tiles the block is then counted as decoded and its file      *)
(* holds the output.  No match between the final cursor and the declared  *)
(* size is required.                                                      *)
C27_SizeMismatchTolerated ==
    /\ (pc = "loop" /\ OpDone /\ last.ok /\ idx > size) => error = "none"
    /\ (pc # "loop" /\ OpDone /\ last.ok) =>
          /\ idx >= size + 1
          /\ error \in {"none", "type"}
          /\ variant = "split" =>
                /\ results[Len(results)].ok
                /\ results[Len(results)].out = res
                /\ [name |-> FileName(variant, LastAddr), content |-> res] \in files

C27_Witness ==
    /\ pc = "exit" /\ variant = "split" /\ OpDone /\ last.ok
    /\ last.kind = "alt" /\ size = 2 /\ idx = 6 /\ Len(arr) = 6
    /\ results[1].ok /\ Len(results[1].out) = 4

-----------------------------------------------------------------------------
(* C28: whenever the loop condition is evaluated, and when a              *)
(* back-reference computes idx_window, the counter idx_res is the length  *)
(* of res, so idx_window = idx_res - distance is the index distance       *)
(* bytes before the end of the output.                                    *)
C28_OutputCounter ==
    /\ pc = "loop" => idx_res = Len(res)
    /\ (last.kind = "backref" /\ PyIndexOK(arr, last.idx0 + 1)) =>
          last.win = L0 - last.tmp

C28_Witness ==
    /\ pc = "loop" /\ last.kind = "backref" /\ last.ok /\ variant = "unpacker"
    /\ L0 = 3 /\ last.tmp = 1 /\ last.win = 2 /\ idx_res = 5 /\ Len(res) = 5

-----------------------------------------------------------------------------
\* the decode loop of decoder v on the current block, from its start
TraceOf(v) ==
    RunTrace(v, arr, size, Frame(2, << >>, 0, {0, 1}), [cursors |-> << >>, backref |-> FALSE])

(* C29: on a block in which a decoder fetches no opcode byte >= 0x80, the *)
(* other decoder fetches none either, begins its iterations at the same   *)
(* cursor values and ends with the same output, the same cursor and the   *)
(* same error or none; and the decoder running is on its trace.           *)
C29_VariantEquivalence ==
    Len(arr) >= 2 =>
        LET ts  == TraceOf("split")
            tu  == TraceOf("unpacker")
            own == IF variant = "split" THEN ts ELSE tu
        IN  /\ (~ts.backref \/ ~tu.backref) =>
                  /\ ~ts.backref /\ ~tu.backref
                  /\ tu.cursors = ts.cursors
                  /\ tu.fr.res = ts.fr.res
                  /\ tu.fr.idx = ts.fr.idx
                  /\ tu.fr.err = ts.fr.err
            /\ last.kind # "none" =>
                  (iters <= Len(own.cursors) /\ own.cursors[iters] = last.idx0)
            /\ Len(res) <= Len(own.fr.res) /\ SubSeq(own.fr.res, 1, Len(res)) = res
            /\ pc # "loop" =>
                  /\ res = own.fr.res /\ idx = own.fr.idx /\ iters = Len(own.cursors)
                  /\ error \in {"arr", "res"} <=> own.fr.err # "none"
                  /\ own.fr.err # "none" => error = own.fr.err

C29_Witness ==
    /\ variant = "unpacker" /\ pc = "exit" /\ Len(arr) >= 2
    /\ ~TraceOf("split").backref /\ TraceOf("split").cursors = <<2, 4>>
    /\ last.kind = "single" /\ last.ok /\ iters = 2 /\ L0 = 1 /\ Len(res) = 3

-----------------------------------------------------------------------------
(* C30: unpack_tiles creates or changes no file while its decode loop     *)
(* runs nor when the block fails: a file left under the block's name by   *)
(* an earlier run is unchanged after a failure and no file ever holds a   *)
(* partial output.                                                        *)
C30_FailedKeepsFiles ==
    variant = "split" =>
        \A i \in 1..Len(results) :
            ~results[i].ok =>
                \A f \in files :
                    f.name = FileName(variant, results[i].addr) => f.content = Stale

C30_Step ==
    /\ (variant = "split" /\ pc = "loop" /\ LoopCond) => files' = files
    /\ (variant = "split" /\ Len(outcome') = Len(outcome) + 1
        /\ outcome'[Len(outcome')] = "fail") => files' = files

C30_NoArtifactOnFailure == [](C30_FailedKeepsFiles) /\ [][C30_Step]_vars

C30_Witness ==
    /\ variant = "split" /\ pc = "exit" /\ BlockFailed /\ Len(res) >= 1
    /\ tiles_addrs = <<1>>
    /\ files = {[name |-> FileName("split", 1), content |-> Stale]}

====
